---------------------------- MODULE Spec2Model ----------------------------
(***************************************************************************)
(* LabWise-AI: knowledge-base resolution and classification engine.        *)
(*                                                                         *)
(* Strings are sequences of one-character strings, so that lowercasing,    *)
(* trimming, whitespace collapsing and SQL LIKE matching are computed      *)
(* rather than assumed.  A Python float is modelled by an integer number of  *)
(* tenths (40 is 4.0).  An Optional[x] is the empty sequence (None) or the *)
(* one-element sequence <<x>>.                                             *)
(***************************************************************************)
EXTENDS Integers, Sequences, FiniteSets, TLC

VARIABLES
    pc,         \* position of the running call / pipeline
    call,       \* arguments of the service call under way
    ret,        \* its return value
    db,         \* the knowledge base tables: tests, sources, ranges, synonyms
    patient,    \* the patient the report belongs to: sex and optional age
    llm_data,   \* items returned by llm_service.extract_structured_data
    results,    \* the list flowing through process_report
    raised      \* exception escaping the handler ("" when none)

vars == <<pc, call, ret, db, patient, llm_data, results, raised>>

---------------------------------------------------------------------------
(* Optional values *)

None == <<>>

Some(x) == <<x>>

IsNone(o) == o = <<>>

Get(o) == o[1]

---------------------------------------------------------------------------
(* Bounds of the model *)

\* numeric arguments of classify_value range over -1..MaxVal
MaxVal == 4

\* number of rows in the ranges table of a knowledge base
MaxRanges == 2

\* number of items the extraction returns for one report
MaxItems == 2

\* number of rows in the ranges table while a report is processed
MaxReportRanges == 1

\* the most results in a batch given to the confidence scorer
MaxBatch == 2

\* rows of test_ranges.csv
MaxCsvRanges == 2

\* calls of load_csv_data
MaxLoads == 2

\* states of the shared random number generator
MaxRngStates == 3

---------------------------------------------------------------------------
(* Character strings *)

UpperChars == <<"A","B","C","D","E","F","G","H","I","J","K","L","M",
                "N","O","P","Q","R","S","T","U","V","W","X","Y","Z">>

LowerChars == <<"a","b","c","d","e","f","g","h","i","j","k","l","m",
                "n","o","p","q","r","s","t","u","v","w","x","y","z">>

\* the lowercase letter of every uppercase letter
ToLower ==
    [c \in { UpperChars[i] : i \in 1..26 } |->
        LowerChars[CHOOSE i \in 1..26 : UpperChars[i] = c]]

\* str.lower() on one character
LowerChar(c) == IF c \in DOMAIN ToLower THEN ToLower[c] ELSE c

\* str.lower()
Lower(s) == [i \in 1..Len(s) |-> LowerChar(s[i])]

\* characters matched by \s and removed by str.strip()
IsSpace(c) == c \in {" ", "\t", "\n"}

RECURSIVE LStrip(_)
LStrip(s) ==
    IF s # <<>> /\ IsSpace(Head(s)) THEN LStrip(Tail(s)) ELSE s

RECURSIVE RStrip(_)
RStrip(s) ==
    IF s # <<>> /\ IsSpace(s[Len(s)]) THEN RStrip(SubSeq(s, 1, Len(s) - 1)) ELSE s

\* str.strip()
Strip(s) == RStrip(LStrip(s))

\* re.sub(r'\s+', ' ', s): every maximal run of whitespace becomes one blank
RECURSIVE CollapseSpaces(_)
CollapseSpaces(s) ==
    IF s = <<>> THEN <<>>
    ELSE IF IsSpace(Head(s))
         THEN <<" ">> \o CollapseSpaces(LStrip(s))
         ELSE <<Head(s)>> \o CollapseSpaces(Tail(s))

---------------------------------------------------------------------------
(* MedicalUtils *)

\* a table in which an expansion is itself a key
TERM_SYNONYMS_chained ==
    << [key |-> <<"h","b">>, val |-> <<"h","g","b">>],
       [key |-> <<"h","g","b">>,
        val |-> <<"h","e","m","o","g","l","o","b","i","n">>] >>

TERM_SYNONYMS ==
    <<
       [key |-> <<"h","b">>,
        val |-> <<"h","e","m","o","g","l","o","b","i","n">>],
       [key |-> <<"h","g","b">>,
        val |-> <<"h","e","m","o","g","l","o","b","i","n">>],
       [key |-> <<"w","b","c">>,
        val |-> <<"w","h","i","t","e"," ","b","l","o","o","d"," ","c","e","l","l"," ","c","o","u","n","t">>],
       [key |-> <<"r","b","c">>,
        val |-> <<"r","e","d"," ","b","l","o","o","d"," ","c","e","l","l"," ","c","o","u","n","t">>],
       [key |-> <<"p","l","t">>,
        val |-> <<"p","l","a","t","e","l","e","t"," ","c","o","u","n","t">>],
       [key |-> <<"m","c","v">>,
        val |-> <<"m","e","a","n"," ","c","o","r","p","u","s","c","u","l","a","r"," ","v","o","l","u","m","e">>],
       [key |-> <<"m","c","h">>,
        val |-> <<"m","e","a","n"," ","c","o","r","p","u","s","c","u","l","a","r"," ","h","e","m","o","g","l","o","b","i","n">>],
       [key |-> <<"m","c","h","c">>,
        val |-> <<"m","e","a","n"," ","c","o","r","p","u","s","c","u","l","a","r"," ","h","e","m","o","g","l","o","b","i","n"," ","c","o","n","c","e","n","t","r","a","t","i","o","n">>],
       [key |-> <<"e","s","r">>,
        val |-> <<"e","r","y","t","h","r","o","c","y","t","e"," ","s","e","d","i","m","e","n","t","a","t","i","o","n"," ","r","a","t","e">>],
       [key |-> <<"c","r","p">>,
        val |-> <<"c","-","r","e","a","c","t","i","v","e"," ","p","r","o","t","e","i","n">>],
       [key |-> <<"a","l","t">>,
        val |-> <<"a","l","a","n","i","n","e"," ","a","m","i","n","o","t","r","a","n","s","f","e","r","a","s","e">>],
       [key |-> <<"a","s","t">>,
        val |-> <<"a","s","p","a","r","t","a","t","e"," ","a","m","i","n","o","t","r","a","n","s","f","e","r","a","s","e">>],
       [key |-> <<"a","l","p">>,
        val |-> <<"a","l","k","a","l","i","n","e"," ","p","h","o","s","p","h","a","t","a","s","e">>],
       [key |-> <<"g","g","t">>,
        val |-> <<"g","a","m","m","a","-","g","l","u","t","a","m","y","l"," ","t","r","a","n","s","f","e","r","a","s","e">>],
       [key |-> <<"l","d","l">>,
        val |-> <<"l","d","l"," ","c","h","o","l","e","s","t","e","r","o","l">>],
       [key |-> <<"h","d","l">>,
        val |-> <<"h","d","l"," ","c","h","o","l","e","s","t","e","r","o","l">>],
       [key |-> <<"t","s","h">>,
        val |-> <<"t","h","y","r","o","i","d"," ","s","t","i","m","u","l","a","t","i","n","g"," ","h","o","r","m","o","n","e">>],
       [key |-> <<"f","t","4">>,
        val |-> <<"f","r","e","e"," ","t","h","y","r","o","x","i","n","e">>],
       [key |-> <<"f","t","3">>,
        val |-> <<"f","r","e","e"," ","t","r","i","i","o","d","o","t","h","y","r","o","n","i","n","e">>],
       [key |-> <<"h","b","a","1","c">>,
        val |-> <<"h","e","m","o","g","l","o","b","i","n"," ","a","1","c">>],
       [key |-> <<"a","1","c">>,
        val |-> <<"h","e","m","o","g","l","o","b","i","n"," ","a","1","c">>]
    >>

\* dict.get(key, default) on TERM_SYNONYMS
TermSynonymsGet(key, default) ==
    IF \E i \in 1..Len(TERM_SYNONYMS) : TERM_SYNONYMS[i].key = key
    THEN TERM_SYNONYMS[CHOOSE i \in 1..Len(TERM_SYNONYMS) : TERM_SYNONYMS[i].key = key].val
    ELSE default

\* the name is not lowercased
normalize_test_name_no_lower(test_name) ==
    LET normalized == CollapseSpaces(Strip(test_name))
    IN  TermSynonymsGet(normalized, normalized)

normalize_test_name(test_name) ==
    LET normalized == CollapseSpaces(Strip(Lower(test_name)))
    IN  TermSynonymsGet(normalized, normalized)

\* the element "mu" stands for the one character U+03BC
UNIT_CONVERSIONS ==
    <<
       [key |-> <<"g","/","d","l">>, val |-> <<"g","/","d","L">>],
       [key |-> <<"g","/","l">>, val |-> <<"g","/","L">>],
       [key |-> <<"m","g","/","d","l">>, val |-> <<"m","g","/","d","L">>],
       [key |-> <<"m","m","o","l","/","l">>, val |-> <<"m","m","o","l","/","L">>],
       [key |-> <<"u","m","o","l","/","l">>, val |-> <<"mu","m","o","l","/","L">>],
       [key |-> <<"i","u","/","l">>, val |-> <<"I","U","/","L">>],
       [key |-> <<"u","/","l">>, val |-> <<"U","/","L">>],
       [key |-> <<"p","g","/","m","l">>, val |-> <<"p","g","/","m","L">>],
       [key |-> <<"n","g","/","m","l">>, val |-> <<"n","g","/","m","L">>],
       [key |-> <<"n","g","/","d","l">>, val |-> <<"n","g","/","d","L">>]
    >>

\* unit.lower().strip(), then UNIT_CONVERSIONS.get(unit_lower, unit)
normalize_unit(unit) ==
    LET unit_lower == Strip(Lower(unit))
    IN  IF \E i \in 1..Len(UNIT_CONVERSIONS) : UNIT_CONVERSIONS[i].key = unit_lower
        THEN UNIT_CONVERSIONS[CHOOSE i \in 1..Len(UNIT_CONVERSIONS) :
                                  UNIT_CONVERSIONS[i].key = unit_lower].val
        ELSE unit

\* a comparison operator slipped: the lower bound is tested with >
classify_value_swapped(value, ref_low, ref_high) ==
    IF ~IsNone(ref_low) /\ value > Get(ref_low) THEN "LOW"
    ELSE IF ~IsNone(ref_high) /\ value > Get(ref_high) THEN "HIGH"
    ELSE "NORMAL"

\* the bounds are treated as exclusive
classify_value_exclusive(value, ref_low, ref_high) ==
    IF ~IsNone(ref_low) /\ value <= Get(ref_low) THEN "LOW"
    ELSE IF ~IsNone(ref_high) /\ value >= Get(ref_high) THEN "HIGH"
    ELSE "NORMAL"

classify_value(value, ref_low, ref_high) ==
    IF ~IsNone(ref_low) /\ value < Get(ref_low) THEN "LOW"
    ELSE IF ~IsNone(ref_high) /\ value > Get(ref_high) THEN "HIGH"
    ELSE "NORMAL"

---------------------------------------------------------------------------
(* SQL LIKE, as Column.ilike(pattern) evaluates it: % matches any run of   *)
(* characters, _ any one character, letters compare case-insensitively.    *)

\* s[i..] LIKE p[j..]
RECURSIVE LikeFrom(_, _, _, _)
LikeFrom(s, p, i, j) ==
    IF j > Len(p) THEN i > Len(s)
    ELSE IF p[j] = "%"
         THEN LikeFrom(s, p, i, j + 1) \/ (i <= Len(s) /\ LikeFrom(s, p, i + 1, j))
         ELSE /\ i <= Len(s)
              /\ (p[j] = "_" \/ p[j] = s[i])
              /\ LikeFrom(s, p, i + 1, j + 1)

\* lower(s) LIKE lower(p), which is how ilike is rendered
LikeMatch(s, p) == LikeFrom(Lower(s), Lower(p), 1, 1)

\* column.ilike(f"%{normalized}%"); a NULL column matches nothing
ILikeContains(column, normalized) ==
    /\ ~IsNone(column)
    /\ LikeMatch(Get(column), <<"%">> \o normalized \o <<"%">>)

---------------------------------------------------------------------------
(* Knowledge base rows *)

Test(id, canonical, short) ==
    [test_id |-> id, canonical_name |-> canonical, short_name |-> short]

Source(id, trust) == [source_id |-> id, trust_level |-> trust]

Synonym(id, test, syn) == [synonym_id |-> id, test_id |-> test, synonym |-> syn]

Range(id, test, src, sx, amin, amax, prio, lo, hi, text) ==
    [range_id |-> id, test_id |-> test, source_id |-> src, sex |-> sx,
     age_min |-> amin, age_max |-> amax, source_priority |-> prio,
     ref_low |-> lo, ref_high |-> hi, ref_text |-> text,
     unit |-> Some(<<"g","/","d","L">>)]

PLACEHOLDER_TEST_ID == 999

\* rows of the tests table
TestRows ==
    { Test(1, <<"H","e","m","o","g","l","o","b","i","n">>, Some(<<"H","b">>)),
      Test(2, <<"H","e","m","o","g","l","o","b","i","n"," ","A","1","c">>,
              Some(<<"H","b","A","1","c">>)),
      Test(3, <<"G","l","u","c","o","s","e">>, None),
      Test(4, <<"F","a","s","t","i","n","g"," ","B","l","o","o","d"," ","S","u","g","a","r">>,
              Some(<<"F","B","S">>)),
      Test(PLACEHOLDER_TEST_ID,
              <<"U","n","a","s","s","i","g","n","e","d"," ","T","e","s","t">>,
              Some(<<"U","n","a","s","s","i","g","n","e","d">>)) }

\* rows of the sources table; no row has source_id 9
SourceRows == { Source(1, 3), Source(2, 5) }

\* rows the synonyms table is drawn from; no test has test_id 77
SynonymPool ==
    { Synonym(1, 4, <<"f","a","s","t","i","n","g"," ","g","l","u","c","o","s","e">>),
      Synonym(2, 3, <<"F","B","S"," ","t","e","s","t">>),
      Synonym(3, 2, <<"G","l","y","c","a","t","e","d"," ","H","g","b">>),
      Synonym(4, 77, <<"o","r","p","h","a","n">>) }

\* rows the ranges table is drawn from
RangePool ==
    { \* demographic variants of one test
      Range(1,  1, 1, "Any",    None,     None,     1, Some(40), Some(100), None),
      Range(2,  1, 1, "Male",   None,     None,     1, Some(40), Some(100), None),
      Range(3,  1, 1, "Female", None,     None,     1, Some(40), Some(100), None),
      Range(4,  1, 1, "Any",    None,     Some(12), 1, Some(40), Some(100), None),
      Range(5,  1, 1, "Any",    Some(18), None,     1, Some(40), Some(100), None),
      Range(6,  1, 1, "Male",   Some(18), None,     1, Some(40), Some(100), None),
      Range(7,  1, 1, "Any",    Some(12), Some(18), 1, Some(40), Some(100), None),
      \* conflicting sources; source 9 is not in the sources table
      Range(8,  1, 1, "Any",    None,     None,     2, Some(50), Some(90), None),
      Range(9,  1, 2, "Any",    None,     None,     1, Some(50), Some(90), None),
      Range(10, 1, 2, "Any",    None,     None,     2, Some(50), Some(90), None),
      Range(11, 1, 9, "Any",    None,     None,     1, Some(50), Some(90), None),
      \* one-sided, text-only and empty references
      Range(12, 1, 1, "Any",    None,     None,     1, Some(40), None,    None),
      Range(13, 1, 1, "Any",    None,     None,     1, None,    Some(100), None),
      Range(14, 1, 1, "Any",    None,     None,     1, None,    None,
                Some(<<"N","e","g","a","t","i","v","e">>)),
      Range(15, 1, 1, "Any",    None,     None,     1, None,    None,     None),
      \* another test
      Range(16, 2, 2, "Any",    None,     None,     1, Some(40), Some(100), None) }

\* the ranges tables considered: up to MaxRanges rows of the pool
RangeTables == { S \in SUBSET RangePool : Cardinality(S) <= MaxRanges }

\* the rows a report is processed against: any sex, one sex, an age bound,
\* both bounds, one bound, text only, nothing
ReportRangePool ==
    { r \in RangePool : r.range_id \in { 1, 2, 4, 12, 13, 14, 15 } }

ReportRangeTables ==
    { S \in SUBSET ReportRangePool : Cardinality(S) <= MaxReportRanges }

KnowledgeBase(rangeRows, synonymRows) ==
    [tests |-> TestRows, sources |-> SourceRows,
     ranges |-> rangeRows, synonyms |-> synonymRows]

---------------------------------------------------------------------------
(* RAGService.find_test *)

CanonicalMatches(d, normalized) ==
    { t \in d.tests : ILikeContains(Some(t.canonical_name), normalized) }

ShortNameMatches(d, normalized) ==
    { t \in d.tests : ILikeContains(t.short_name, normalized) }

SynonymMatches(d, normalized) ==
    { s \in d.synonyms : ILikeContains(Some(s.synonym), normalized) }

\* db.query(Test).filter(Test.test_id == test_id).first()
TestById(d, test_id) ==
    IF \E t \in d.tests : t.test_id = test_id
    THEN Some(CHOOSE t \in d.tests : t.test_id = test_id)
    ELSE None

\* the synonym table is consulted before the tests table
find_test_synonym_first(d, test_name) ==
    LET normalized == normalize_test_name(test_name)
        by_canonical == CanonicalMatches(d, normalized)
        by_short == ShortNameMatches(d, normalized)
        by_synonym == SynonymMatches(d, normalized)
    IN  IF by_synonym # {} THEN { TestById(d, s.test_id) : s \in by_synonym }
        ELSE IF by_canonical # {} THEN { Some(t) : t \in by_canonical }
        ELSE IF by_short # {} THEN { Some(t) : t \in by_short }
        ELSE { None }

\* The values find_test can return.  Query.first() carries no ORDER BY, so
\* any matching row may be the first one.
find_test(d, test_name) ==
    LET normalized == normalize_test_name(test_name)
        by_canonical == CanonicalMatches(d, normalized)
        by_short == ShortNameMatches(d, normalized)
        by_synonym == SynonymMatches(d, normalized)
    IN  IF by_canonical # {} THEN { Some(t) : t \in by_canonical }
        ELSE IF by_short # {} THEN { Some(t) : t \in by_short }
        ELSE IF by_synonym # {} THEN { TestById(d, s.test_id) : s \in by_synonym }
        ELSE { None }

---------------------------------------------------------------------------
(* RAGService.get_reference_range *)

\* the filter(...) calls on the ranges query
FilteredRanges(d, test_id, sex, age) ==
    { r \in d.ranges :
        /\ r.test_id = test_id
        /\ (r.sex = sex \/ r.sex = "Any")
        /\ \/ IsNone(age)
           \/ /\ (IsNone(r.age_min) \/ Get(r.age_min) <= Get(age))
              /\ (IsNone(r.age_max) \/ Get(r.age_max) >= Get(age)) }

HasSource(d, r) == \E s \in d.sources : s.source_id = r.source_id

SourceOf(d, r) == CHOOSE s \in d.sources : s.source_id = r.source_id

\* query.join(Source): an inner join, a range without its source row is left out
JoinedRanges(d, test_id, sex, age) ==
    { r \in FilteredRanges(d, test_id, sex, age) : HasSource(d, r) }

\* order_by(Range.source_priority.asc(), Source.trust_level.desc())
OrderedBefore(d, r, q) ==
    \/ r.source_priority < q.source_priority
    \/ /\ r.source_priority = q.source_priority
       /\ SourceOf(d, r).trust_level >= SourceOf(d, q).trust_level

\* the rows that can be ranges[0]: rows equal in both sort keys come in any order
BestRanges(d, test_id, sex, age) ==
    { r \in JoinedRanges(d, test_id, sex, age) :
        \A q \in JoinedRanges(d, test_id, sex, age) : OrderedBefore(d, r, q) }

\* the dictionary returned for best_range
RangeInfo(d, best_range) ==
    [ref_low |-> best_range.ref_low,
     ref_high |-> best_range.ref_high,
     ref_text |-> best_range.ref_text,
     unit |-> best_range.unit,
     source_id |-> best_range.source_id,
     source_priority |-> best_range.source_priority,
     trust_level |-> IF HasSource(d, best_range)
                     THEN SourceOf(d, best_range).trust_level ELSE 3,
     sex |-> best_range.sex]

\* the age filter is applied with age 0 when no age is given
get_reference_range_age_zero(d, test_id, sex, age) ==
    IF JoinedRanges(d, test_id, sex, IF IsNone(age) THEN Some(0) ELSE age) = {}
    THEN { [best_range |-> None, value |-> None] }
    ELSE { [best_range |-> Some(r), value |-> Some(RangeInfo(d, r))] :
             r \in BestRanges(d, test_id, sex, IF IsNone(age) THEN Some(0) ELSE age) }

\* The outcomes of get_reference_range: the row taken as best_range and the
\* value returned.
get_reference_range(d, test_id, sex, age) ==
    IF JoinedRanges(d, test_id, sex, age) = {}
    THEN { [best_range |-> None, value |-> None] }
    ELSE { [best_range |-> Some(r), value |-> Some(RangeInfo(d, r))] :
             r \in BestRanges(d, test_id, sex, age) }

---------------------------------------------------------------------------
(* Calls of the services, each on arguments drawn from small sets *)

NoPatient == [sex |-> "Any", age |-> None]

Values == -1..MaxVal

OptValues == { None } \cup { Some(v) : v \in Values }

\* names a report can carry
RawNames ==
    { <<"H","b">>,
      <<" ","h","B"," ">>,
      <<"H","e","m","o","g","l","o","b","i","n">>,
      <<"h","e","m","o","g","l","o","b","i","n"," "," ","a","1","c">>,
      <<"A","1","C">>,
      <<"g","l","u","c","o","s","e">>,
      <<"F","B","S">>,
      <<"g","l","y","c","a","t","e","d">>,
      <<"o","r","p","h","a","n">>,
      <<"X","Y","Z","1","2","3">>,
      <<"f","a","s","t","i","n","g","_","b","l","o","o","d">>,
      <<" "," ">> }

Sexes == { "Male", "Female", "Any" }

\* ages at, between and beyond the age bounds of the pool
Ages == { None, Some(12), Some(15), Some(18) }

TestIds == { 1, 2 }

InitClassify ==
    /\ pc = "call"
    /\ call \in [fn : {"classify_value"}, value : Values,
                 ref_low : OptValues, ref_high : OptValues]
    /\ ret = None
    /\ db = KnowledgeBase({}, {})
    /\ patient = NoPatient
    /\ llm_data = <<>>
    /\ results = <<>>
    /\ raised = ""

ClassifyValueCall ==
    /\ pc = "call"
    /\ call.fn = "classify_value"
    /\ ret' = Some(classify_value(call.value, call.ref_low, call.ref_high))
    /\ pc' = "done"
    /\ UNCHANGED <<call, db, patient, llm_data, results, raised>>

SpecClassify == InitClassify /\ [][ClassifyValueCall]_vars

InitResolve ==
    /\ pc = "call"
    /\ call \in [fn : {"find_test"}, test_name : RawNames]
    /\ ret = None
    /\ db \in { KnowledgeBase({}, syn) : syn \in SUBSET SynonymPool }
    /\ patient = NoPatient
    /\ llm_data = <<>>
    /\ results = <<>>
    /\ raised = ""

FindTestCall ==
    /\ pc = "call"
    /\ call.fn = "find_test"
    /\ \E test \in find_test(db, call.test_name) : ret' = Some(test)
    /\ pc' = "done"
    /\ UNCHANGED <<call, db, patient, llm_data, results, raised>>

SpecResolve == InitResolve /\ [][FindTestCall]_vars

InitRange ==
    /\ pc = "call"
    /\ call \in [fn : {"get_reference_range"}, test_id : TestIds,
                 sex : Sexes, age : Ages]
    /\ ret = None
    /\ db \in { KnowledgeBase(rows, {}) : rows \in RangeTables }
    /\ patient = NoPatient
    /\ llm_data = <<>>
    /\ results = <<>>
    /\ raised = ""

GetReferenceRangeCall ==
    /\ pc = "call"
    /\ call.fn = "get_reference_range"
    /\ \E out \in get_reference_range(db, call.test_id, call.sex, call.age) :
           ret' = Some(out)
    /\ pc' = "done"
    /\ UNCHANGED <<call, db, patient, llm_data, results, raised>>

SpecRange == InitRange /\ [][GetReferenceRangeCall]_vars

---------------------------------------------------------------------------
(* Properties of classify_value, checked under SpecClassify *)

ClassifyDone == pc = "done" /\ call.fn = "classify_value"

Rank(c) == CASE c = "LOW" -> 0 [] c = "NORMAL" -> 1 [] c = "HIGH" -> 2

\* C1: classify_value returns LOW when refLow is present and value < refLow;
\* otherwise HIGH when refHigh is present and value > refHigh; otherwise
\* NORMAL.  A value equal to a bound is not outside that bound, and LOW takes
\* precedence when both comparisons hold.
C1_ClassifyRule ==
    ClassifyDone =>
        LET v == call.value
            below == ~IsNone(call.ref_low) /\ v < Get(call.ref_low)
            above == ~IsNone(call.ref_high) /\ v > Get(call.ref_high)
        IN  /\ below => Get(ret) = "LOW"
            /\ (~below /\ above) => Get(ret) = "HIGH"
            /\ (~below /\ ~above) => Get(ret) = "NORMAL"
            /\ (call.ref_low = Some(v) /\ ~above) => Get(ret) = "NORMAL"
            /\ (call.ref_high = Some(v) /\ ~below) => Get(ret) = "NORMAL"

\* C1 witness: both comparisons hold and LOW is returned
C1_Witness ==
    /\ ClassifyDone
    /\ ~IsNone(call.ref_low) /\ call.value < Get(call.ref_low)
    /\ ~IsNone(call.ref_high) /\ call.value > Get(call.ref_high)
    /\ ret = Some("LOW")

\* C2: with refLow <= refHigh the result is one of LOW/NORMAL/HIGH, it is
\* monotonic in the value (a smaller value never classifies above a larger
\* one), and a value above refHigh is never LOW.
C2_ClassifyMonotonic ==
    (/\ ClassifyDone
     /\ ~IsNone(call.ref_low) /\ ~IsNone(call.ref_high)
     /\ Get(call.ref_low) <= Get(call.ref_high)) =>
        /\ Get(ret) \in { "LOW", "NORMAL", "HIGH" }
        /\ \A v2 \in Values :
              LET other == classify_value(v2, call.ref_low, call.ref_high)
              IN  /\ call.value <= v2 => Rank(Get(ret)) <= Rank(other)
                  /\ v2 <= call.value => Rank(other) <= Rank(Get(ret))
        /\ call.value > Get(call.ref_high) => Get(ret) # "LOW"

\* C2 witness: a value past refHigh, with refLow <= refHigh, classified HIGH
C2_Witness ==
    /\ ClassifyDone
    /\ ~IsNone(call.ref_low) /\ ~IsNone(call.ref_high)
    /\ Get(call.ref_low) < Get(call.ref_high)
    /\ call.value > Get(call.ref_high)
    /\ ret = Some("HIGH")

---------------------------------------------------------------------------
(* Properties of find_test, checked under SpecResolve *)

FindTestDone == pc = "done" /\ call.fn = "find_test"

\* C5: the cascade returns a canonical-name match whenever one exists, else
\* a short-name match whenever one exists, else the owner of a matching
\* synonym; a name matching the canonical name of test A alone and a synonym
\* owned by another test B resolves to A.
C5_CascadeOrder ==
    FindTestDone =>
        LET n == normalize_test_name(call.test_name)
            canon == CanonicalMatches(db, n)
            short == ShortNameMatches(db, n)
            syn == SynonymMatches(db, n)
        IN  /\ canon # {} => Get(ret) \in { Some(t) : t \in canon }
            /\ (canon = {} /\ short # {}) => Get(ret) \in { Some(t) : t \in short }
            /\ (canon = {} /\ short = {} /\ syn # {}) =>
                   Get(ret) \in { TestById(db, x.test_id) : x \in syn }
            /\ (canon = {} /\ short = {} /\ syn = {}) => Get(ret) = None
            /\ \A A \in db.tests :
                   (canon = {A} /\ \E x \in syn : x.test_id # A.test_id) =>
                       Get(ret) = Some(A)

\* C5 witness: the name matches the canonical name of A and a synonym owned
\* by an existing test B # A, and A is returned
C5_Witness ==
    /\ FindTestDone
    /\ LET n == normalize_test_name(call.test_name)
       IN  \E A \in db.tests, x \in SynonymMatches(db, n) :
               /\ CanonicalMatches(db, n) = {A}
               /\ x.test_id # A.test_id
               /\ TestById(db, x.test_id) # None
               /\ Get(ret) = Some(A)

---------------------------------------------------------------------------
(* Properties of get_reference_range, checked under SpecRange *)

RangeDone == pc = "done" /\ call.fn = "get_reference_range"

\* the filter of the range selector: test, sex and, when an age is given, age
PassesFilter(r, test_id, sex, age) ==
    /\ r.test_id = test_id
    /\ r.sex \in { sex, "Any" }
    /\ ~IsNone(age) =>
          /\ (IsNone(r.age_min) \/ Get(age) >= Get(r.age_min))
          /\ (IsNone(r.age_max) \/ Get(age) <= Get(r.age_max))

\* C6: the range returned is a row of the requested test, of the requested
\* sex or "Any", and, when an age is given, with the age inside its inclusive
\* age bounds; when no age is given the age bounds exclude nothing: a row of
\* the test and sex that joins its source yields a range.
C6_SelectedPassesFilter ==
    RangeDone =>
        LET best == Get(ret).best_range
        IN  /\ ~IsNone(best) =>
                  /\ Get(best) \in db.ranges
                  /\ PassesFilter(Get(best), call.test_id, call.sex, call.age)
            /\ (/\ IsNone(call.age)
                /\ \E r \in db.ranges :
                       /\ r.test_id = call.test_id
                       /\ r.sex \in { call.sex, "Any" }
                       /\ HasSource(db, r)) => ~IsNone(best)

\* C6 witness: no age is given and a row with an age bound is returned
C6_Witness ==
    /\ RangeDone
    /\ IsNone(call.age)
    /\ ~IsNone(Get(ret).best_range)
    /\ ~IsNone(Get(Get(ret).best_range).age_min)

\* C6 witness of the inclusive bound: the age equals age_max of the row returned
C6_WitnessInclusive ==
    /\ RangeDone
    /\ ~IsNone(call.age)
    /\ ~IsNone(Get(ret).best_range)
    /\ Get(Get(ret).best_range).age_max = call.age

\* C7: among the rows that pass the filter the selected one has the least
\* source_priority and, among those of that priority, the greatest trust.
C7_BestAmongFiltered ==
    (RangeDone /\ ~IsNone(Get(ret).best_range)) =>
        LET best == Get(Get(ret).best_range)
        IN  \A q \in { r \in db.ranges :
                         PassesFilter(r, call.test_id, call.sex, call.age) } :
                /\ best.source_priority <= q.source_priority
                /\ (q.source_priority = best.source_priority /\ HasSource(db, q)) =>
                       SourceOf(db, best).trust_level >= SourceOf(db, q).trust_level

\* C8: NotFound is returned exactly when no row passes the filter, and a
\* range returned carries a trust level.
C8_NotFoundIffNoCandidate ==
    RangeDone =>
        /\ IsNone(Get(ret).value) <=>
               { r \in db.ranges :
                   PassesFilter(r, call.test_id, call.sex, call.age) } = {}
        /\ ~IsNone(Get(ret).value) => Get(Get(ret).value).trust_level \in 1..5

---------------------------------------------------------------------------
(* Numbers in text *)

DigitChars == <<"0","1","2","3","4","5","6","7","8","9">>

IsDigit(c) == \E i \in 1..10 : DigitChars[i] = c

DigitVal(c) == (CHOOSE i \in 1..10 : DigitChars[i] = c) - 1

\* the number a run of decimal digits denotes
RECURSIVE DigitsVal(_)
DigitsVal(s) ==
    IF s = <<>> THEN 0
    ELSE 10 * DigitsVal(SubSeq(s, 1, Len(s) - 1)) + DigitVal(s[Len(s)])

\* re.sub(r'[^\d.]', '', value)
CleanValue(s) == SelectSeq(s, LAMBDA c : IsDigit(c) \/ c = ".")

Dots(s) == { i \in 1..Len(s) : s[i] = "." }

\* float(s) accepts a cleaned string that has a digit and at most one point
FloatAccepts(s) ==
    /\ Cardinality(Dots(s)) <= 1
    /\ \E i \in 1..Len(s) : IsDigit(s[i])

\* float(s) in tenths, for a string float accepts with at most one decimal
ParseFloat(s) ==
    IF Dots(s) = {} THEN 10 * DigitsVal(s)
    ELSE LET d == CHOOSE i \in Dots(s) : TRUE
         IN  10 * DigitsVal(SubSeq(s, 1, d - 1))
                + (IF d < Len(s) THEN DigitVal(s[d + 1]) ELSE 0)

\* the decimal digits of a natural number
RECURSIVE NatStr(_)
NatStr(n) ==
    IF n < 10 THEN <<DigitChars[n + 1]>>
    ELSE NatStr(n \div 10) \o <<DigitChars[(n % 10) + 1]>>

\* str(x) of a float given in tenths: 40 is "4.0"
FloatStr(n) ==
    IF n < 0 THEN <<"-">> \o NatStr((0 - n) \div 10) \o <<".">> \o NatStr((0 - n) % 10)
    ELSE NatStr(n \div 10) \o <<".">> \o NatStr(n % 10)

\* how an f-string renders an optional string
OptStr(o) == IF IsNone(o) THEN <<"N","o","n","e">> ELSE Get(o)

---------------------------------------------------------------------------
(* Values of an extracted item: JSON null, a number, a string, or a list or *)
(* object                                                                  *)

Null == [kind |-> "null", num |-> 0, str |-> <<>>]

Num(n) == [kind |-> "num", num |-> n, str |-> <<>>]

Text(s) == [kind |-> "str", num |-> 0, str |-> s]

Obj == [kind |-> "obj", num |-> 0, str |-> <<>>]

---------------------------------------------------------------------------
(* ParsingService.parse_lab_report *)

Blocklist ==
    { <<"a","g","e">>,
      <<"s","e","x">>,
      <<"g","e","n","d","e","r">>,
      <<"p","a","g","e">>,
      <<"d","a","t","e">>,
      <<"t","i","m","e">>,
      <<"r","e","g","i","s","t","e","r","e","d">>,
      <<"c","o","l","l","e","c","t","e","d">>,
      <<"r","e","p","o","r","t","e","d">>,
      <<"g","e","n","e","r","a","t","e","d">>,
      <<"r","e","c","e","i","v","e","d">>,
      <<"p","i","d">>,
      <<"p","a","t","i","e","n","t">>,
      <<"n","a","m","e">>,
      <<"m","r","n">>,
      <<"d","o","b">>,
      <<"r","e","f">>,
      <<"d","r">>,
      <<"d","o","c","t","o","r">>,
      <<"h","o","s","p","i","t","a","l">>,
      <<"l","a","b">>,
      <<"l","o","c","a","t","i","o","n">>,
      <<"p","h","o","n","e">>,
      <<"f","a","x">>,
      <<"e","m","a","i","l">> }

StartsWith(s, prefix) ==
    Len(s) >= Len(prefix) /\ SubSeq(s, 1, Len(prefix)) = prefix

Blocked(test_name) ==
    \E blocked \in Blocklist :
        \/ Lower(test_name) = blocked
        \/ StartsWith(Lower(test_name), blocked \o <<" ">>)

\* the value after "Ensure value is numeric": None when the item is skipped
NumericValue(value) ==
    IF value.kind = "str"
    THEN IF FloatAccepts(CleanValue(value.str))
         THEN Some(Num(ParseFloat(CleanValue(value.str))))
         ELSE None
    ELSE Some(value)

\* one round of the loop: the entry appended to results, None when the item
\* is skipped (continue) or an exception is caught
ParsedItem(item) ==
    IF IsNone(item.test_name) \/ item.test_name = Some(<<>>) \/ item.value.kind = "null"
    THEN None
    ELSE IF Blocked(Get(item.test_name)) THEN None
    ELSE IF IsNone(NumericValue(item.value)) THEN None
    ELSE IF IsNone(item.unit) THEN None
    ELSE Some([test_name |-> Get(item.test_name),
               normalized_name |-> normalize_test_name(Get(item.test_name)),
               value |-> Get(NumericValue(item.value)),
               unit |-> normalize_unit(Get(item.unit)),
               reference_range |-> item.ref_range])

RECURSIVE parse_lab_report(_)
parse_lab_report(data) ==
    IF data = <<>> THEN <<>>
    ELSE (IF IsNone(ParsedItem(Head(data))) THEN <<>>
          ELSE <<Get(ParsedItem(Head(data)))>>)
         \o parse_lab_report(Tail(data))

---------------------------------------------------------------------------
(* RAGService.get_test_info and batch_lookup *)

\* The outcomes of get_test_info for one name, given the sex and age the
\* range is asked for.  best_range is not a key of the dictionary: it is the
\* row get_reference_range took, kept to observe the selection.
TestInfo(d, test_name, sex, age) ==
    UNION { IF IsNone(test) THEN { None }
            ELSE { Some([test_id |-> Get(test).test_id,
                         canonical_name |-> Get(test).canonical_name,
                         short_name |-> Get(test).short_name,
                         reference_range |-> out.value,
                         trust_level |-> IF IsNone(out.value) THEN 3
                                         ELSE Get(out.value).trust_level,
                         source_priority |-> IF IsNone(out.value) THEN 3
                                             ELSE Get(out.value).source_priority,
                         kb_found |-> TRUE,
                         best_range |-> out.best_range]) :
                     out \in get_reference_range(d, Get(test).test_id, sex, age) } :
            test \in find_test(d, test_name) }

\* the range is asked for with the defaults of get_reference_range
get_test_info(d, test_name) == TestInfo(d, test_name, "Any", None)

\* result.get('normalized_name') or result.get('test_name')
LookupName(result) ==
    IF result.normalized_name # <<>> THEN result.normalized_name ELSE result.test_name

\* every item is marked as found
Enriched_always_found(result, kb_info) ==
    [test_name |-> result.test_name,
     normalized_name |-> result.normalized_name,
     value |-> result.value,
     unit |-> result.unit,
     reference_range |-> Some(result.reference_range),
     kb_found |-> TRUE,
     kb_info |-> kb_info]

\* one round of the loop of batch_lookup
Enriched(result, kb_info) ==
    [test_name |-> result.test_name,
     normalized_name |-> result.normalized_name,
     value |-> result.value,
     unit |-> result.unit,
     reference_range |-> Some(result.reference_range),
     kb_found |-> ~IsNone(kb_info),
     kb_info |-> kb_info]

\* The lists batch_lookup can return.
RECURSIVE batch_lookup(_, _)
batch_lookup(d, test_results) ==
    IF test_results = <<>> THEN { <<>> }
    ELSE { <<Enriched(Head(test_results), kb_info)>> \o rest :
             kb_info \in get_test_info(d, LookupName(Head(test_results))),
             rest \in batch_lookup(d, Tail(test_results)) }

---------------------------------------------------------------------------
(* ClassificationService *)

\* the item is reported as NORMAL
Unknown_as_normal(result, reason) ==
    [test_name |-> result.test_name,
     normalized_name |-> result.normalized_name,
     value |-> result.value,
     unit |-> result.unit,
     reference_range |-> result.reference_range,
     kb_found |-> result.kb_found,
     kb_info |-> result.kb_info,
     classification |-> "NORMAL",
     classification_reason |-> Some(reason),
     ref_low |-> None, ref_high |-> None, ref_unit |-> None]

\* the three early returns of classify_result
Unknown(result, reason) ==
    [test_name |-> result.test_name,
     normalized_name |-> result.normalized_name,
     value |-> result.value,
     unit |-> result.unit,
     reference_range |-> result.reference_range,
     kb_found |-> result.kb_found,
     kb_info |-> result.kb_info,
     classification |-> "UNKNOWN",
     classification_reason |-> Some(reason),
     ref_low |-> None, ref_high |-> None, ref_unit |-> None]

\* the "Create reference range string" branches
ReferenceRangeString(ref_range) ==
    IF ~IsNone(ref_range.ref_low) /\ ~IsNone(ref_range.ref_high)
    THEN Some(FloatStr(Get(ref_range.ref_low)) \o <<" ","-"," ">>
              \o FloatStr(Get(ref_range.ref_high)) \o <<" ">> \o OptStr(ref_range.unit))
    ELSE IF ~IsNone(ref_range.ref_low)
    THEN Some(<<">"," ">> \o FloatStr(Get(ref_range.ref_low)) \o <<" ">>
              \o OptStr(ref_range.unit))
    ELSE IF ~IsNone(ref_range.ref_high)
    THEN Some(<<"<"," ">> \o FloatStr(Get(ref_range.ref_high)) \o <<" ">>
              \o OptStr(ref_range.unit))
    ELSE ref_range.ref_text

\* value < ref_low or value > ref_high is evaluated on a value that is not a
\* number: Python raises TypeError
ComparisonRaises(value, ref_low, ref_high) ==
    value.kind # "num" /\ (~IsNone(ref_low) \/ ~IsNone(ref_high))

\* The outcome of classify_result: the exception raised ("" when none) and
\* the dictionary returned.
classify_result(result) ==
    IF ~result.kb_found \/ IsNone(result.kb_info)
    THEN [exc |-> "", value |-> Unknown(result, "Test not found in knowledge base")]
    ELSE IF IsNone(Get(result.kb_info).reference_range)
    THEN [exc |-> "", value |-> Unknown(result, "No reference range available")]
    ELSE IF result.value.kind = "null"
    THEN [exc |-> "", value |-> Unknown(result, "No numeric value available")]
    ELSE LET ref_range == Get(Get(result.kb_info).reference_range)
         IN  IF ComparisonRaises(result.value, ref_range.ref_low, ref_range.ref_high)
             THEN [exc |-> "TypeError", value |-> Unknown(result, "")]
             ELSE [exc |-> "",
                   value |->
                     [test_name |-> result.test_name,
                      normalized_name |-> result.normalized_name,
                      value |-> result.value,
                      unit |-> result.unit,
                      reference_range |-> ReferenceRangeString(ref_range),
                      kb_found |-> result.kb_found,
                      kb_info |-> result.kb_info,
                      classification |-> classify_value(result.value.num,
                                             ref_range.ref_low, ref_range.ref_high),
                      classification_reason |-> None,
                      ref_low |-> ref_range.ref_low,
                      ref_high |-> ref_range.ref_high,
                      ref_unit |-> ref_range.unit]]

\* [self.classify_result(result) for result in results]: the first exception
\* ends the comprehension
classify_batch(rs) ==
    LET outs == [i \in 1..Len(rs) |-> classify_result(rs[i])]
    IN  IF \E i \in 1..Len(rs) : outs[i].exc # ""
        THEN [exc |-> outs[CHOOSE i \in 1..Len(rs) :
                             /\ outs[i].exc # ""
                             /\ \A j \in 1..(i - 1) : outs[j].exc = ""].exc,
              value |-> <<>>]
        ELSE [exc |-> "", value |-> [i \in 1..Len(rs) |-> outs[i].value]]

---------------------------------------------------------------------------
(* LLMService.generate_batch_explanations *)

\* The text of an explanation is not modelled, only which text it is: the
\* explanation of a LOW, NORMAL or HIGH result (from the LLM or from the
\* fallback template of that classification), or the "Unable to classify"
\* fallback.
Explained(result) ==
    [ai_explanation |-> IF result.classification \in { "LOW", "NORMAL", "HIGH" }
                        THEN "explanation" ELSE "unable to classify"] @@ result

\* the explained list is built back to front
generate_batch_explanations_reversed(rs) ==
    [i \in 1..Len(rs) |-> Explained(rs[Len(rs) + 1 - i])]

generate_batch_explanations(rs) == [i \in 1..Len(rs) |-> Explained(rs[i])]

---------------------------------------------------------------------------
(* LabService.process_report, steps 4 to 8, and the /analyze route *)

\* round(x): the integers nearest to num/den (num >= 0, den > 0).  On a tie
\* the result of Python depends on the binary value of the float, so both
\* neighbours are possible.
Round(num, den) ==
    LET q == num \div den
        r == num % den
    IN  IF 2 * r < den THEN { q }
        ELSE IF 2 * r > den THEN { q + 1 }
        ELSE { q, q + 1 }

\* settings.CONFIDENCE_LOW_THRESHOLD and CONFIDENCE_MEDIUM_THRESHOLD, in
\* thousandths
CONFIDENCE_LOW_THRESHOLD == 600

CONFIDENCE_MEDIUM_THRESHOLD == 800

Count(rs, P(_)) == Cardinality({ i \in 1..Len(rs) : P(rs[i]) })

\* the summary generator is called for every report
OverallSummary_always_generated(rs) == "generated"

\* step 7: llm_service.generate_final_summary is called when a result has
\* kb_found, else the fixed fallback text is used
OverallSummary(rs) ==
    IF Count(rs, LAMBDA r : r.kb_found) > 0 THEN "generated" ELSE "fallback"

\* f"{(kb_found_count/total_tests*100):.1f}%" if total_tests > 0 else "0%":
\* the strings the expression can give
KbMatchRate(kb_found_count, total_tests) ==
    IF total_tests > 0
    THEN { NatStr(tenths \div 10) \o <<".">> \o NatStr(tenths % 10) \o <<"%">> :
             tenths \in Round(1000 * kb_found_count, total_tests) }
    ELSE { <<"0","%">> }

\* one entry of formatted_tests
FormattedTest(result) ==
    [test_name |-> result.test_name,
     value |-> result.value,
     unit |-> result.unit,
     classification |-> result.classification,
     reference_range |-> result.reference_range,
     ai_explanation |-> result.ai_explanation,
     kb_found |-> result.kb_found,
     canonical_name |-> IF IsNone(result.kb_info) THEN <<>>
                        ELSE Get(result.kb_info).canonical_name]

\* results the knowledge base did not match are left out
formatted_tests_matched_only(rs) ==
    LET kept == SelectSeq(rs, LAMBDA r : r.kb_found)
    IN  [i \in 1..Len(kept) |-> FormattedTest(kept[i])]

\* "Format individual results": one entry per result, in order
formatted_tests(rs) == [i \in 1..Len(rs) |-> FormattedTest(rs[i])]

\* "Determine overall confidence level": from the OCR confidence (thousandths)
ConfidenceLevel(ocr_confidence) ==
    IF ocr_confidence >= CONFIDENCE_MEDIUM_THRESHOLD THEN "HIGH"
    ELSE IF ocr_confidence >= CONFIDENCE_LOW_THRESHOLD THEN "MEDIUM"
    ELSE "LOW"

\* steps 7 and 8 after the explanations: the summary is generated only when a
\* test matched the knowledge base; the text of the summary is not modelled.
\* The dictionaries _format_results can return; the reported ocr_confidence is
\* in hundredths.
format_results(rs, ocr_confidence) ==
  { [success |-> TRUE,
     summary |->
        [total_tests |-> Len(rs),
         kb_matched |-> Count(rs, LAMBDA r : r.kb_found),
         kb_match_rate |-> rate,
         low_results |-> Count(rs, LAMBDA r : r.classification = "LOW"),
         normal_results |-> Count(rs, LAMBDA r : r.classification = "NORMAL"),
         high_results |-> Count(rs, LAMBDA r : r.classification = "HIGH"),
         unknown_results |-> Count(rs, LAMBDA r : r.classification = "UNKNOWN")],
     overall_summary |-> OverallSummary(rs),
     confidence |-> [ocr_confidence |-> rounded,
                     confidence_level |-> ConfidenceLevel(ocr_confidence)],
     tests |-> formatted_tests(rs)] :
    rounded \in Round(ocr_confidence, 10),
    rate \in KbMatchRate(Count(rs, LAMBDA r : r.kb_found), Len(rs)) }

\* AnalysisResponse(**result): a TestResult needs a float value and a string
\* reference_range
ValidTestResult(t) == t.value.kind = "num" /\ ~IsNone(t.reference_range)

---------------------------------------------------------------------------
(* A report from upload to response *)

\* names, values and units of the extracted items
ReportNames == { <<"H","b">>, <<"X","Y","Z","1","2","3">> }

ReportValues ==
    { Null, Num(30), Num(120), Text(<<"<","7">>), Text(<<"a","b">>), Obj }

ReportUnits == { <<"g","/","d","l">> }

Item(name, value, unit) ==
    [test_name |-> Some(name), value |-> value, unit |-> Some(unit), ref_range |-> <<>>]

\* a resolvable name with every kind of value, an unresolvable name with a number
Items ==
    { Item(<<"H","b">>, v, u) : v \in ReportValues, u \in ReportUnits }
    \cup { Item(<<"X","Y","Z","1","2","3">>, Num(30), u) : u \in ReportUnits }

ItemLists == UNION { [1..n -> Items] : n \in 0..MaxItems }

\* the tests table of the reports: every name of Items resolves to at most
\* one test
ReportTestRows == { t \in TestRows : t.test_id # 2 }

Patients == { [sex |-> "Male", age |-> Some(34)] }

\* confidences the OCR step can report, in thousandths
OcrConfidences == { 304, 950 }

Init ==
    /\ pc = "parse"
    /\ call = [fn |-> "process_report", parsed_results |-> <<>>]
    /\ ret = None
    /\ db \in { [KnowledgeBase(rows, SynonymPool) EXCEPT !.tests = ReportTestRows] :
                 rows \in ReportRangeTables }
    /\ patient \in Patients
    /\ llm_data \in ItemLists
    /\ results = <<>>
    /\ raised = ""

\* step 4; parsed_results is the list the later steps copy from and never
\* write to
ParseLabReport ==
    /\ pc = "parse"
    /\ results' = parse_lab_report(llm_data)
    /\ call' = [call EXCEPT !.parsed_results = results']
    /\ pc' = "lookup"
    /\ UNCHANGED <<ret, db, patient, llm_data, raised>>

\* step 5
BatchLookup ==
    /\ pc = "lookup"
    /\ \E enriched \in batch_lookup(db, results) : results' = enriched
    /\ pc' = "classify"
    /\ UNCHANGED <<call, ret, db, patient, llm_data, raised>>

\* step 6; an exception leaves process_report and the route answers 500
ClassifyBatch ==
    /\ pc = "classify"
    /\ LET out == classify_batch(results)
       IN  IF out.exc # ""
           THEN /\ raised' = out.exc
                /\ pc' = "http_500"
                /\ UNCHANGED results
           ELSE /\ results' = out.value
                /\ pc' = "format"
                /\ UNCHANGED raised
    /\ UNCHANGED <<call, ret, db, patient, llm_data>>

\* steps 7 and 8: the explanations are written into the results, then the
\* response is formatted.  ocr_confidence is the confidence step 3 reported;
\* nothing reads it before this step.
FormatResults ==
    /\ pc = "format"
    /\ results' = generate_batch_explanations(results)
    /\ \E ocr_confidence \in OcrConfidences :
           \E out \in format_results(results', ocr_confidence) : ret' = Some(out)
    /\ pc' = "respond"
    /\ UNCHANGED <<call, db, patient, llm_data, raised>>

\* the route builds AnalysisResponse; a ValidationError is a ValueError and
\* is answered 400
Respond ==
    /\ pc = "respond"
    /\ IF \A i \in 1..Len(Get(ret).tests) : ValidTestResult(Get(ret).tests[i])
       THEN pc' = "http_200" /\ UNCHANGED raised
       ELSE pc' = "http_400" /\ raised' = "ValidationError"
    /\ UNCHANGED <<call, ret, db, patient, llm_data, results>>

Next ==
    \/ ParseLabReport
    \/ BatchLookup
    \/ ClassifyBatch
    \/ FormatResults
    \/ Respond

Spec == Init /\ [][Next]_vars

---------------------------------------------------------------------------
(* Properties of a processed report, checked under Spec *)

\* results holds the enriched list
LookedUp == pc \in { "classify", "http_500" }

\* results holds the classified list
Classified == pc \in { "format", "respond", "http_200", "http_400" }

Ended == pc \in { "http_200", "http_400", "http_500" }

HasRange(r) == ~IsNone(r.kb_info) /\ ~IsNone(Get(r.kb_info).reference_range)

RangeOf(r) == Get(Get(r.kb_info).reference_range)

\* C3: an item whose selected range has neither ref_low nor ref_high is
\* emitted UNKNOWN with a reason, never LOW, NORMAL or HIGH.
C3_TextOnlyIsUnknown ==
    Classified =>
        \A i \in 1..Len(results) :
            (/\ HasRange(results[i])
             /\ IsNone(RangeOf(results[i]).ref_low)
             /\ IsNone(RangeOf(results[i]).ref_high)) =>
                /\ results[i].classification = "UNKNOWN"
                /\ ~IsNone(results[i].classification_reason)

\* identity resolution failed, range selection failed, or the value is not a
\* number
FailedItem(r) == ~r.kb_found \/ ~HasRange(r) \/ r.value.kind # "num"

\* C4: an item whose identity or range was not found, or whose value is
\* absent or not a number, is classified UNKNOWN, and no exception is raised
\* on account of it.
C4_UnknownOnFailure ==
    /\ (LookedUp \/ Classified) =>
          ((\E i \in 1..Len(results) : FailedItem(results[i])) => raised = "")
    /\ pc = "http_200" =>
          \A i \in 1..Len(results) :
              FailedItem(results[i]) => results[i].classification = "UNKNOWN"

\* C9: the range of every item is selected for the patient: a row of the
\* patient's sex that is the only row of the test is selected, and a row whose
\* age bounds exclude the patient's age is not.
C9_PatientContext ==
    (LookedUp \/ Classified) =>
        \A i \in 1..Len(results) :
            ~IsNone(results[i].kb_info) =>
                LET info == Get(results[i].kb_info)
                    rows == { r \in db.ranges : r.test_id = info.test_id }
                IN  /\ \A r \in rows :
                          (/\ rows = {r}
                           /\ r.sex = patient.sex
                           /\ HasSource(db, r)
                           /\ PassesFilter(r, info.test_id, patient.sex, patient.age)) =>
                              info.best_range = Some(r)
                    /\ ~IsNone(info.best_range) =>
                          PassesFilter(Get(info.best_range), info.test_id,
                                       patient.sex, patient.age)

\* a knowledge-base row that breaks the invariant of ranges: no bound, no text
Malformed(r) ==
    /\ HasRange(r)
    /\ IsNone(RangeOf(r).ref_low) /\ IsNone(RangeOf(r).ref_high)
    /\ IsNone(RangeOf(r).ref_text)

\* C10: no failure of an item aborts the report: no exception ends it, every
\* parsed item is returned, and a failing item is returned as UNKNOWN.
C10_NoAbort ==
    /\ raised = ""
    /\ Ended =>
          /\ pc = "http_200"
          /\ Len(Get(ret).tests) = Len(parse_lab_report(llm_data))
          /\ \A i \in 1..Len(results) :
                 (FailedItem(results[i]) \/ Malformed(results[i])) =>
                     results[i].classification = "UNKNOWN"

\* the response has been formatted
Formatted == pc \in { "respond", "http_200", "http_400" }

\* C11: an item whose test was identified but for which no reference range
\* was selected is emitted with kb_found false and classification UNKNOWN,
\* and the count of knowledge-base matches leaves it out.
C11_RangeNotFoundIsUnmatched ==
    /\ (LookedUp \/ Classified) =>
          \A i \in 1..Len(results) :
              (~IsNone(results[i].kb_info) /\ ~HasRange(results[i])) =>
                  ~results[i].kb_found
    /\ Classified =>
          \A i \in 1..Len(results) :
              (~IsNone(results[i].kb_info) /\ ~HasRange(results[i])) =>
                  results[i].classification = "UNKNOWN"
    /\ Formatted =>
          Get(ret).summary.kb_matched <= Count(results, HasRange)

\* the name of the item matches no canonical name, short name or synonym
NoMatch(d, result) ==
    LET n == normalize_test_name(LookupName(result))
    IN  /\ CanonicalMatches(d, n) = {}
        /\ ShortNameMatches(d, n) = {}
        /\ SynonymMatches(d, n) = {}

\* C12: an item whose name matches no canonical name, short name or synonym
\* has no knowledge-base record and kb_found false in the batch output (the
\* state the lookup leaves) and in the formatted response (the state the
\* formatting leaves), and the lookup raises nothing.
C12_UnresolvableName ==
    /\ pc = "classify" =>
          /\ raised = ""
          /\ \A i \in 1..Len(results) :
                 NoMatch(db, results[i]) =>
                     /\ ~results[i].kb_found
                     /\ IsNone(results[i].kb_info)
    /\ pc = "respond" =>
          \A i \in 1..Len(results) :
              NoMatch(db, results[i]) => ~Get(ret).tests[i].kb_found

\* C12 witness: a report with an unresolvable name is answered, the item is in
\* the response with kb_found false
C12_Witness ==
    /\ pc = "http_200"
    /\ \E i \in 1..Len(results) :
           /\ NoMatch(db, results[i])
           /\ Get(ret).tests[i].test_name = <<"X","Y","Z","1","2","3">>
           /\ ~Get(ret).tests[i].kb_found

SameItem(a, b) ==
    /\ a.test_name = b.test_name
    /\ a.value = b.value
    /\ a.unit = b.unit

\* C13: after lookup, after classification, after the explanations and in the
\* formatted response there is one result per item given to the batch, and
\* the i-th result has the name, value and unit of the i-th item.  Each list
\* is looked at in the state the step that builds it leaves.
C13_OutputOrder ==
    LET input == call.parsed_results
    IN  /\ pc \in { "classify", "format", "respond" } =>
              /\ Len(results) = Len(input)
              /\ \A i \in 1..Len(input) : SameItem(results[i], input[i])
        /\ pc = "respond" =>
              /\ Len(Get(ret).tests) = Len(input)
              /\ \A i \in 1..Len(input) : SameItem(Get(ret).tests[i], input[i])
              /\ \A i \in 1..Len(input) :
                     /\ Get(ret).tests[i].classification = results[i].classification
                     /\ Get(ret).tests[i].ai_explanation = results[i].ai_explanation

\* C13 witness: a response with two different items in the order of the input
C13_Witness ==
    /\ pc = "http_200"
    /\ Len(call.parsed_results) = 2
    /\ ~SameItem(call.parsed_results[1], call.parsed_results[2])
    /\ Get(ret).tests[1].classification # Get(ret).tests[2].classification
    /\ SameItem(Get(ret).tests[2], call.parsed_results[2])

---------------------------------------------------------------------------
(* OpenAIService.calculate_confidence *)

\* Scores are in thousandths until the result is rounded to hundredths.
\* random.uniform(a, b) returns any number of [a, b]: the ends, the middle and
\* a number near a rounding step stand for the interval.

\* random.uniform(0.40, 0.50)
BaseScores == { 400, 450, 497, 500 }

\* random.uniform(-0.05, 0.05)
Randomizations == { -50, 0, 50 }

\* random.uniform(0.20, 0.25)
FloorScores == { 200, 225, 250 }

Max(a, b) == IF a >= b THEN a ELSE b

Min(a, b) == IF a <= b THEN a ELSE b

\* the score is left outside [0, 1]
Unclamped(x) == x

\* max(0.0, min(1.0, x))
Clamp(x) == Max(0, Min(1000, x))

\* kb_info.get('trust_level', 3) and kb_info.get('source_priority', 3) on
\* result.get('kb_info', {})
TrustLevelOf(result) ==
    IF IsNone(result.kb_info) THEN 3 ELSE Get(result.kb_info).trust_level

SourcePriorityOf(result) ==
    IF IsNone(result.kb_info) THEN 3 ELSE Get(result.kb_info).source_priority

\* (trust_score * 0.6) + (priority_score * 0.4) with
\* trust_score = (trust_level - 1) / 4.0, priority_score = (6 - source_priority) / 5.0
QualityScore(result) ==
    (TrustLevelOf(result) - 1) * 150 + (6 - SourcePriorityOf(result)) * 80

\* what one round of the loop can add to total_score
TestScores(result) ==
    IF result.kb_found
    THEN { Clamp(QualityScore(result) + randomization) :
             randomization \in Randomizations }
    ELSE FloorScores

\* the values total_score can have after the loop
RECURSIVE TotalScores(_)
TotalScores(rs) ==
    IF rs = <<>> THEN { 0 }
    ELSE { x + rest : x \in TestScores(Head(rs)), rest \in TotalScores(Tail(rs)) }

\* final_score times total_tests, in millionths:
\* max(kb_base, kb_match_rate * 0.4 + avg_score * 0.6)
FinalScore(total_score, kb_base, kb_matches, total_tests) ==
    Max(1000 * kb_base * total_tests, 400000 * kb_matches + 600 * total_score)

\* "Determine confidence level", on final_score before it is rounded
LevelOf(final, total_tests) ==
    IF final >= 700000 * total_tests THEN "HIGH"
    ELSE IF final >= 500000 * total_tests THEN "MEDIUM"
    ELSE "LOW"

\* The dictionaries calculate_confidence can return; score is in hundredths.
calculate_confidence(rs, kb_matches) ==
    IF rs = <<>>
    THEN { [score |-> 0, level |-> "NONE", source |-> <<"No tests extracted">>] }
    ELSE IF kb_matches = 0
    THEN { [score |-> score, level |-> "LOW",
            source |-> <<"AI Inference Only (No KB data)">>] :
             score \in UNION { Round(base_score, 10) : base_score \in BaseScores } }
    ELSE LET total_tests == Len(rs)
         IN  UNION { { [score |-> score,
                        level |-> LevelOf(FinalScore(total_score, kb_base,
                                                     kb_matches, total_tests),
                                          total_tests),
                        source |-> <<"Knowledge Base", kb_matches, total_tests>>] :
                         score \in Round(FinalScore(total_score, kb_base,
                                                    kb_matches, total_tests),
                                         10000 * total_tests) } :
                     total_score \in TotalScores(rs), kb_base \in FloorScores }

\* the entries of a result list the scorer reads
TrustLevels == { 1, 3, 5 }

SourcePriorities == { 1, 3, 5 }

ScoredResults ==
    { [kb_found |-> FALSE, kb_info |-> None] }
    \cup { [kb_found |-> TRUE,
            kb_info |-> Some([trust_level |-> t, source_priority |-> p])] :
             t \in TrustLevels, p \in SourcePriorities }

ScoredLists == UNION { [1..n -> ScoredResults] : n \in 0..MaxBatch }

\* kb_matches is the number process_report counts:
\* sum(1 for r in classified_results if r.get('kb_found'))
KbMatches(rs) == Count(rs, LAMBDA r : r.kb_found)

InitConfidence ==
    /\ pc = "call"
    /\ \E rs \in ScoredLists :
           call = [fn |-> "calculate_confidence", results |-> rs,
                   kb_matches |-> KbMatches(rs)]
    /\ ret = None
    /\ db = KnowledgeBase({}, {})
    /\ patient = NoPatient
    /\ llm_data = <<>>
    /\ results = <<>>
    /\ raised = ""

CalculateConfidenceCall ==
    /\ pc = "call"
    /\ call.fn = "calculate_confidence"
    /\ \E out \in calculate_confidence(call.results, call.kb_matches) :
           ret' = Some(out)
    /\ pc' = "done"
    /\ UNCHANGED <<call, db, patient, llm_data, results, raised>>

SpecConfidence == InitConfidence /\ [][CalculateConfidenceCall]_vars

---------------------------------------------------------------------------
(* Properties of calculate_confidence, checked under SpecConfidence *)

ConfidenceDone == pc = "done" /\ call.fn = "calculate_confidence"

\* C14: the confidence computed for a batch is a function of the batch: the
\* score and level returned are the only ones the call can return.
C14_ConfidenceDeterministic ==
    ConfidenceDone =>
        calculate_confidence(call.results, call.kb_matches) = { Get(ret) }

Levels == { "NONE", "LOW", "MEDIUM", "HIGH" }

\* C15: the score is within [0, 1] (0..100 hundredths), the level is one of
\* NONE, LOW, MEDIUM, HIGH, and it is NONE exactly when the batch is empty.
C15_ScoreAndLevelRange ==
    ConfidenceDone =>
        /\ Get(ret).score \in 0..100
        /\ Get(ret).level \in Levels
        /\ Get(ret).level = "NONE" <=> call.results = <<>>

\* C15 witness: a batch of matched tests of the best sources, whose per-test
\* score is clamped, gets the score 1.0
C15_Witness ==
    /\ ConfidenceDone
    /\ call.results # <<>>
    /\ \A i \in 1..Len(call.results) :
           QualityScore(call.results[i]) + 50 > 1000
    /\ Get(ret).score = 100
    /\ Get(ret).level = "HIGH"

\* C16: for a non-empty batch the level is the one the reported score
\* gives: HIGH from 0.70, MEDIUM from 0.50, else LOW.
C16_LevelAgreesWithScore ==
    (ConfidenceDone /\ call.results # <<>>) =>
        Get(ret).level = IF Get(ret).score >= 70 THEN "HIGH"
                         ELSE IF Get(ret).score >= 50 THEN "MEDIUM"
                         ELSE "LOW"

\* the sum of the per-test scores of the formula, an unmatched test counting
\* for the floor
RECURSIVE FormulaSum(_, _)
FormulaSum(rs, floor) ==
    IF rs = <<>> THEN 0
    ELSE (IF Head(rs).kb_found THEN Clamp(QualityScore(Head(rs))) ELSE floor)
         + FormulaSum(Tail(rs), floor)

\* C17: for a non-empty batch the score is, to the hundredth reported,
\* max(baseline, 0.4 * matched/total + 0.6 * mean(perTestScore)) for some
\* baseline and some floor of the unmatched tests among those the code draws
\* from.
C17_ScoreFormula ==
    (ConfidenceDone /\ call.results # <<>>) =>
        \E baseline \in FloorScores \cup BaseScores, floor \in FloorScores :
            Get(ret).score \in
                Round(Max(1000 * baseline * Len(call.results),
                          400000 * call.kb_matches
                              + 600 * FormulaSum(call.results, floor)),
                      10000 * Len(call.results))

---------------------------------------------------------------------------
(* Properties of the confidence and the reference range of a report, checked
   under Spec *)

\* C18: when a non-empty batch has no knowledge-base match, every item has
\* kb_found false and is UNKNOWN, and the confidence of the response has the
\* level LOW and a number above zero.
C18_NoMatchBatch ==
    (pc = "respond" /\ results # <<>>
        /\ \A i \in 1..Len(results) : IsNone(results[i].kb_info)) =>
        /\ \A i \in 1..Len(results) :
               /\ ~Get(ret).tests[i].kb_found
               /\ Get(ret).tests[i].classification = "UNKNOWN"
        /\ Get(ret).confidence.confidence_level = "LOW"
        /\ Get(ret).confidence.ocr_confidence > 0

\* C19: the confidence of the response is the level and the score the scorer
\* returns for the classified batch.
C19_ScorerConfidence ==
    pc = "respond" =>
        \E out \in calculate_confidence(results, KbMatches(results)) :
            /\ Get(ret).confidence.confidence_level = out.level
            /\ Get(ret).confidence.ocr_confidence = out.score

\* the display of a range as the claim words it
Display(ref_range) ==
    IF ~IsNone(ref_range.ref_low) /\ ~IsNone(ref_range.ref_high)
    THEN FloatStr(Get(ref_range.ref_low)) \o <<" ","-"," ">>
         \o FloatStr(Get(ref_range.ref_high)) \o <<" ">> \o OptStr(ref_range.unit)
    ELSE IF ~IsNone(ref_range.ref_low)
    THEN <<">"," ">> \o FloatStr(Get(ref_range.ref_low)) \o <<" ">>
         \o OptStr(ref_range.unit)
    ELSE IF ~IsNone(ref_range.ref_high)
    THEN <<"<"," ">> \o FloatStr(Get(ref_range.ref_high)) \o <<" ">>
         \o OptStr(ref_range.unit)
    ELSE IF ~IsNone(ref_range.ref_text) THEN Get(ref_range.ref_text)
    ELSE <<"N","/","A">>

\* C20: the reference range of a matched item with a selected range is
\* "low - high unit", "> low unit", "< high unit", the raw text of the range,
\* or "N/A" when the range has none of them; it is never null.
C20_ReferenceRangeDisplay ==
    /\ pc = "format" =>
          \A i \in 1..Len(results) :
              (results[i].kb_found /\ HasRange(results[i])) =>
                  results[i].reference_range = Some(Display(RangeOf(results[i])))
    /\ pc = "respond" =>
          \A i \in 1..Len(results) :
              (results[i].kb_found /\ HasRange(results[i])) =>
                  Get(ret).tests[i].reference_range
                      = Some(Display(RangeOf(results[i])))

\* the batch of the same size in which no test is matched
Unmatched(rs) == [i \in 1..Len(rs) |-> [kb_found |-> FALSE, kb_info |-> None]]

\* C27: the score of a non-empty batch with at least one matched test is at
\* least a score the scorer reports for the batch of the same size with no
\* matched test.
C27_EvidenceNotPenalised ==
    (ConfidenceDone /\ call.kb_matches >= 1) =>
        \E unmatched \in calculate_confidence(Unmatched(call.results), 0) :
            Get(ret).score >= unmatched.score

---------------------------------------------------------------------------
(* Properties of normalize_test_name, checked under SpecResolve *)

\* the words of a name: its maximal runs of characters that are not
\* whitespace, in lower case
RECURSIVE Words(_)
Words(s) ==
    IF s = <<>> THEN <<>>
    ELSE IF IsSpace(Head(s)) THEN Words(Tail(s))
    ELSE LET ends == { i \in 1..Len(s) : IsSpace(s[i]) }
             n == IF ends = {} THEN Len(s) + 1
                  ELSE CHOOSE i \in ends : \A j \in ends : i <= j
         IN  <<[i \in 1..(n - 1) |-> LowerChar(s[i])]>>
             \o Words(SubSeq(s, n, Len(s)))

RECURSIVE JoinWords(_)
JoinWords(ws) ==
    IF ws = <<>> THEN <<>>
    ELSE IF Len(ws) = 1 THEN ws[1]
    ELSE ws[1] \o <<" ">> \o JoinWords(Tail(ws))

\* C21: the normalized name is the words of the raw name in lower case
\* joined by single blanks, replaced by its expansion exactly when the whole
\* of it is a key of the abbreviation table; names with the same words
\* resolve to the same tests, and "Hb" resolves as "hemoglobin" does.
C21_Normalization ==
    FindTestDone =>
        LET base == JoinWords(Words(call.test_name))
        IN  /\ normalize_test_name(call.test_name) =
                   IF \E i \in 1..Len(TERM_SYNONYMS) : TERM_SYNONYMS[i].key = base
                   THEN TERM_SYNONYMS[CHOOSE i \in 1..Len(TERM_SYNONYMS) :
                                        TERM_SYNONYMS[i].key = base].val
                   ELSE base
            /\ \A other \in RawNames :
                   Words(other) = Words(call.test_name) =>
                       /\ find_test(db, other) = find_test(db, call.test_name)
                       /\ Get(ret) \in find_test(db, other)
            /\ find_test(db, <<"H","b">>)
                   = find_test(db, <<"h","e","m","o","g","l","o","b","i","n">>)

\* C21 witness: " hB " differs from "Hb" in case and whitespace, is expanded
\* to "hemoglobin" and resolves to a test "Hb" resolves to
C21_Witness ==
    /\ FindTestDone
    /\ call.test_name = <<" ","h","B"," ">>
    /\ normalize_test_name(call.test_name)
           = <<"h","e","m","o","g","l","o","b","i","n">>
    /\ ~IsNone(Get(ret))
    /\ Get(ret) \in find_test(db, <<"H","b">>)

\* C28: normalizing a normalized name returns it unchanged, no expansion of
\* the abbreviation table is a key of it, and the name normalized once
\* resolves to the tests the raw name resolves to.
C28_NormalizeIdempotent ==
    FindTestDone =>
        LET once == normalize_test_name(call.test_name)
        IN  /\ normalize_test_name(once) = once
            /\ find_test(db, once) = find_test(db, call.test_name)
            /\ \A i \in 1..Len(TERM_SYNONYMS) :
                   /\ normalize_test_name(TERM_SYNONYMS[i].val) = TERM_SYNONYMS[i].val
                   /\ normalize_test_name(normalize_test_name(TERM_SYNONYMS[i].key))
                          = normalize_test_name(TERM_SYNONYMS[i].key)

\* C28 witness: an abbreviation is expanded by the first normalization, left
\* alone by the second, and the test is found
C28_Witness ==
    /\ FindTestDone
    /\ call.test_name = <<"A","1","C">>
    /\ normalize_test_name(call.test_name) # Lower(call.test_name)
    /\ normalize_test_name(normalize_test_name(call.test_name))
           = normalize_test_name(call.test_name)
    /\ ~IsNone(Get(ret))

---------------------------------------------------------------------------
(* Properties of the summary and of the classified list, checked under Spec *)

Labels == { "LOW", "NORMAL", "HIGH", "UNKNOWN" }

\* C25: in the formatted report the four classification counts add up to
\* total_tests, which is the number of entries of tests, and kb_matched is at
\* most total_tests.
C25_CountsPartition ==
    pc = "respond" =>
        LET summary == Get(ret).summary
        IN  /\ summary.low_results + summary.normal_results
                   + summary.high_results + summary.unknown_results
                   = summary.total_tests
            /\ summary.total_tests = Len(Get(ret).tests)
            /\ summary.kb_matched <= summary.total_tests
            /\ summary.low_results =
                   Cardinality({ i \in 1..Len(results) :
                                   results[i].classification = "LOW" })

\* C25 witness: a report of two LOW results
C25_Witness ==
    /\ pc = "respond"
    /\ Get(ret).summary.total_tests = 2
    /\ Get(ret).summary.low_results = 2
    /\ Get(ret).summary.kb_matched = 2

\* C26: after lookup and classification a LOW, NORMAL or HIGH result has
\* kb_found, a selected range and a value; a result without kb_found is
\* UNKNOWN; every classification is one of the four labels.
C26_ClassificationImpliesFound ==
    pc = "format" =>
        \A i \in 1..Len(results) :
            /\ results[i].classification \in Labels
            /\ results[i].classification \in { "LOW", "NORMAL", "HIGH" } =>
                   /\ results[i].kb_found
                   /\ HasRange(results[i])
                   /\ results[i].value.kind # "null"
            /\ ~results[i].kb_found => results[i].classification = "UNKNOWN"

\* C26 witness: a classified result next to one that was not found
C26_Witness ==
    /\ pc = "format"
    /\ Len(results) = 2
    /\ results[1].classification = "LOW" /\ results[1].kb_found
    /\ results[2].classification = "UNKNOWN" /\ ~results[2].kb_found

\* C30: a report without tests is answered: total_tests and the four counts
\* are 0, kb_match_rate is "0%", tests is empty and the summary is the
\* fallback; in every report the summary is generated only when a result has
\* kb_found.
C30_ZeroTests ==
    /\ (Ended /\ call.parsed_results = <<>>) => (pc = "http_200" /\ raised = "")
    /\ (pc = "respond" /\ results = <<>>) =>
          LET summary == Get(ret).summary
          IN  /\ Get(ret).success
              /\ summary.total_tests = 0
              /\ summary.low_results = 0 /\ summary.normal_results = 0
              /\ summary.high_results = 0 /\ summary.unknown_results = 0
              /\ summary.kb_match_rate = <<"0","%">>
              /\ Get(ret).tests = <<>>
              /\ Get(ret).overall_summary = "fallback"
    /\ pc = "respond" =>
          (Get(ret).overall_summary = "generated"
              => \E i \in 1..Len(results) : results[i].kb_found)

\* C30 witness: every extracted item was dropped by the parser and the report
\* is answered with the fallback summary
C30_Witness ==
    /\ pc = "http_200"
    /\ llm_data # <<>>
    /\ results = <<>>
    /\ Get(ret).summary.kb_match_rate = <<"0","%">>
    /\ Get(ret).overall_summary = "fallback"

---------------------------------------------------------------------------
(* init_db.load_csv_data and the server that reads the store *)

\* the store after Base.metadata.create_all on a new database file
EmptyStore == [tests |-> {}, sources |-> {}, ranges |-> {}, synonyms |-> {}]

\* the four record sets load_csv_data commits
RecordSets == { "sources", "tests", "ranges", "synonyms" }

\* contents of sources.csv
CsvSources == { {}, SourceRows }

\* contents of tests.csv: no row, the tests, the tests and a row with id 999
CsvTests ==
    { {},
      { t \in TestRows : t.test_id \in { 1, 2 } },
      { t \in TestRows : t.test_id \in { 1, PLACEHOLDER_TEST_ID } } }

\* the test_id column of a row of test_ranges.csv: NaN, the id of a test of
\* tests.csv, an id no test has
CsvRangeTestIds == { None, Some(1), Some(77) }

\* contents of test_ranges.csv: the test_id column of its rows, in file order
CsvRanges == UNION { [1..n -> CsvRangeTestIds] : n \in 0..MaxCsvRanges }

\* contents of test_synonyms.csv
CsvSynonyms == { {}, { s \in SynonymPool : s.test_id \in { 2, 3 } } }

\* Test(test_id=PLACEHOLDER_TEST_ID, canonical_name="Unassigned Test",
\*      short_name="Unassigned", ...)
PlaceholderTest ==
    Test(PLACEHOLDER_TEST_ID,
         <<"U","n","a","s","s","i","g","n","e","d"," ","T","e","s","t">>,
         Some(<<"U","n","a","s","s","i","g","n","e","d">>))

\* the guard is never taken
NeverInitialized(d) == FALSE

\* db.query(Test).count() > 0
AlreadyInitialized(d) == d.tests # {}

\* test_id_value of a row: PLACEHOLDER_TEST_ID if pd.isna(row.get('test_id')),
\* else int(row['test_id'])
TestIdValue(csv_test_id) ==
    IF IsNone(csv_test_id) THEN PLACEHOLDER_TEST_ID ELSE Get(csv_test_id)

\* the largest range_id of the table, 0 for an empty table
MaxRangeId(rows) ==
    IF rows = {} THEN 0
    ELSE CHOOSE n \in { r.range_id : r \in rows } :
             \A r \in rows : r.range_id <= n

\* the table after db.add(range_obj) for every row and db.commit(): range_id
\* is the autoincremented primary key
AddRanges(rows, csv_ranges) ==
    rows \cup { Range(MaxRangeId(rows) + i, TestIdValue(csv_ranges[i]), 1, "Any",
                      None, None, 1, Some(40), Some(100), None) :
                  i \in 1..Len(csv_ranges) }

InitLoad ==
    /\ pc = "idle"
    /\ \E sources \in CsvSources, tests \in CsvTests,
          ranges \in CsvRanges, synonyms \in CsvSynonyms :
           call = [fn |-> "load_csv_data",
                   csv |-> [sources |-> sources, tests |-> tests,
                            ranges |-> ranges, synonyms |-> synonyms],
                   loads |-> 0,
                   committed |-> {},
                   loaded |-> None,
                   server_up |-> FALSE,
                   served |-> {}]
    /\ ret = None
    /\ db = EmptyStore
    /\ patient = NoPatient
    /\ llm_data = <<>>
    /\ results = <<>>
    /\ raised = ""

\* except Exception: db.rollback(); raise. What earlier steps committed stays.
LoadRaises ==
    /\ pc' = "idle"
    /\ ret' = Some("raised")
    /\ raised' = "Exception"
    /\ UNCHANGED <<call, db>>

\* load_csv_data is called: create_all, SessionLocal()
LoadCsvData ==
    /\ pc = "idle"
    /\ call.fn = "load_csv_data"
    /\ call.loads < MaxLoads
    /\ pc' = "check"
    /\ call' = [call EXCEPT !.loads = @ + 1]
    /\ ret' = None
    /\ raised' = ""
    /\ UNCHANGED <<db, patient, llm_data, results>>

\* "Check if data already loaded"
CheckLoaded ==
    /\ pc = "check"
    /\ IF AlreadyInitialized(db)
       THEN pc' = "idle" /\ ret' = Some("skipped")
       ELSE pc' = "sources" /\ UNCHANGED ret
    /\ UNCHANGED <<call, db, patient, llm_data, results, raised>>

\* "Load sources": read_csv raises on a missing or corrupt file, commit raises
\* on a source_id the table has already
LoadSources ==
    /\ pc = "sources"
    /\ \E readable \in BOOLEAN :
           IF /\ readable
              /\ ~\E a \in call.csv.sources, b \in db.sources :
                      a.source_id = b.source_id
           THEN /\ db' = [db EXCEPT !.sources = @ \cup call.csv.sources]
                /\ call' = [call EXCEPT !.committed = @ \cup { "sources" }]
                /\ pc' = "tests"
                /\ UNCHANGED <<ret, raised>>
           ELSE LoadRaises
    /\ UNCHANGED <<patient, llm_data, results>>

\* "Load tests"
LoadTests ==
    /\ pc = "tests"
    /\ \E readable \in BOOLEAN :
           IF /\ readable
              /\ ~\E a \in call.csv.tests, b \in db.tests : a.test_id = b.test_id
           THEN /\ db' = [db EXCEPT !.tests = @ \cup call.csv.tests]
                /\ call' = [call EXCEPT !.committed = @ \cup { "tests" }]
                /\ pc' = "placeholder"
                /\ UNCHANGED <<ret, raised>>
           ELSE LoadRaises
    /\ UNCHANGED <<patient, llm_data, results>>

\* "Create placeholder test for ranges with NA test_id"
CreatePlaceholder ==
    /\ pc = "placeholder"
    /\ IF \E t \in db.tests : t.test_id = PLACEHOLDER_TEST_ID
       THEN UNCHANGED db
       ELSE db' = [db EXCEPT !.tests = @ \cup { PlaceholderTest }]
    /\ pc' = "ranges"
    /\ UNCHANGED <<call, ret, patient, llm_data, results, raised>>

\* "Load ranges"
LoadRanges ==
    /\ pc = "ranges"
    /\ \E readable \in BOOLEAN :
           IF readable
           THEN /\ db' = [db EXCEPT !.ranges = AddRanges(@, call.csv.ranges)]
                /\ call' = [call EXCEPT !.committed = @ \cup { "ranges" }]
                /\ pc' = "synonyms"
                /\ UNCHANGED <<ret, raised>>
           ELSE LoadRaises
    /\ UNCHANGED <<patient, llm_data, results>>

\* "Load synonyms" and the normal return; loaded remembers the store the
\* load left
LoadSynonyms ==
    /\ pc = "synonyms"
    /\ \E readable \in BOOLEAN :
           IF /\ readable
              /\ ~\E a \in call.csv.synonyms, b \in db.synonyms :
                      a.synonym_id = b.synonym_id
           THEN /\ db' = [db EXCEPT !.synonyms = @ \cup call.csv.synonyms]
                /\ call' = [call EXCEPT !.committed = @ \cup { "synonyms" },
                                        !.loaded = Some(db')]
                /\ pc' = "idle"
                /\ ret' = Some("complete")
                /\ UNCHANGED raised
           ELSE LoadRaises
    /\ UNCHANGED <<patient, llm_data, results>>

\* main.startup_event: init_db() creates the tables, an exception is logged,
\* and the application starts; load_csv_data is not called
StartupEvent ==
    /\ call.fn = "load_csv_data"
    /\ ~call.server_up
    /\ call' = [call EXCEPT !.server_up = TRUE]
    /\ UNCHANGED <<pc, ret, db, patient, llm_data, results, raised>>

\* a request is answered from the store as it is; served remembers which
\* record sets were committed and whether a load was running
ServeRequest ==
    /\ call.fn = "load_csv_data"
    /\ call.server_up
    /\ call' = [call EXCEPT !.served =
                    @ \cup { [committed |-> call.committed,
                              loading |-> pc # "idle"] }]
    /\ UNCHANGED <<pc, ret, db, patient, llm_data, results, raised>>

NextLoad ==
    \/ LoadCsvData
    \/ CheckLoaded
    \/ LoadSources
    \/ LoadTests
    \/ CreatePlaceholder
    \/ LoadRanges
    \/ LoadSynonyms
    \/ StartupEvent
    \/ ServeRequest

SpecLoad == InitLoad /\ [][NextLoad]_vars

---------------------------------------------------------------------------
(* Properties of load_csv_data, checked under SpecLoad *)

LoadComplete == pc = "idle" /\ ret = Some("complete")

\* C22: after a load the placeholder test 999 exists, every row of the ranges
\* file is stored, and the test_id of every stored range is the test_id of a
\* stored test.
C22_RangesHaveOwner ==
    LoadComplete =>
        /\ PlaceholderTest \in db.tests
        /\ Cardinality(db.ranges) = Len(call.csv.ranges)
        /\ \A r \in db.ranges : \E t \in db.tests : t.test_id = r.test_id

\* a store in which some but not all of the four record sets were committed
Partial(committed) == committed # {} /\ committed # RecordSets

\* C23: after a failed load no request is served against a store in which only
\* some of the four record sets were committed, and no later load returns
\* through the "already initialized" guard on such a store.
C23_LoadFailureFatal ==
    /\ \A s \in call.served : ~(~s.loading /\ Partial(s.committed))
    /\ (pc = "idle" /\ ret = Some("skipped")) => ~Partial(call.committed)

\* C29: once a load has completed, the four record sets stay what that load
\* left, whatever further loads are run.
C29_LoadIdempotent ==
    (call.fn = "load_csv_data" /\ call.loaded # None) => db = Get(call.loaded)

\* C29 witness: a second load has returned after a complete one, on a store
\* with ranges
C29_Witness ==
    /\ call.fn = "load_csv_data"
    /\ call.loaded # None
    /\ call.loads = 2
    /\ pc = "idle"
    /\ ret = Some("skipped")
    /\ db.ranges # {}
    /\ call.csv.sources = {} /\ call.csv.tests = {}

---------------------------------------------------------------------------
(* Two batch resolutions running in threads of one process: batch_lookup,
   then calculate_confidence, which draws from the generator of the random
   module that all threads of the process share *)

Threads == { 1, 2 }

RngStates == 0..(MaxRngStates - 1)

\* the generator after one draw
NextRng(state) == (state + 1) % MaxRngStates

\* random.uniform(a, b) in generator state `state`: one of the samples,
\* determined by the state
Uniform(samples, state) ==
    CHOOSE x \in samples :
        Cardinality({ y \in samples : y < x }) = state % Cardinality(samples)

\* what one round of the loop adds to total_score in generator state `state`
TestScore(result, state) ==
    IF result.kb_found
    THEN Clamp(QualityScore(result) + Uniform(Randomizations, state))
    ELSE Uniform(FloorScores, state)

\* total_score after the loop over rs, started in generator state `state`
RECURSIVE TotalScore(_, _)
TotalScore(rs, state) ==
    IF rs = <<>> THEN 0
    ELSE TestScore(Head(rs), state) + TotalScore(Tail(rs), NextRng(state))

\* the generator state after n draws
RECURSIVE RngAfter(_, _)
RngAfter(state, n) == IF n = 0 THEN state ELSE RngAfter(NextRng(state), n - 1)

\* the dictionaries returned for total_score and kb_base
Scored(total_score, kb_base, kb_matches, total_tests) ==
    { [score |-> score,
       level |-> LevelOf(FinalScore(total_score, kb_base, kb_matches, total_tests),
                         total_tests),
       source |-> <<"Knowledge Base", kb_matches, total_tests>>] :
        score \in Round(FinalScore(total_score, kb_base, kb_matches, total_tests),
                        10000 * total_tests) }

\* the dictionaries returned when no test is matched
Unscored(base_score) ==
    { [score |-> score, level |-> "LOW",
       source |-> <<"AI Inference Only (No KB data)">>] :
        score \in Round(base_score, 10) }

\* The dictionaries calculate_confidence returns when it runs from generator
\* state `state` and nothing else draws from the generator meanwhile.
calculate_confidence_alone(rs, kb_matches, state) ==
    IF rs = <<>>
    THEN { [score |-> 0, level |-> "NONE", source |-> <<"No tests extracted">>] }
    ELSE IF kb_matches = 0
    THEN Unscored(Uniform(BaseScores, state))
    ELSE Scored(TotalScore(rs, state),
                Uniform(FloorScores, RngAfter(state, Len(rs))),
                kb_matches, Len(rs))

\* the parsed batches the threads resolve
BatchNames == { <<"H","b">>, <<"X","Y","Z","1","2","3">> }

Batches ==
    { parse_lab_report(data) :
        data \in UNION { [1..n -> { Item(name, Num(30), <<"g","/","d","l">>) :
                                     name \in BatchNames }] : n \in 0..MaxBatch } }

\* the stores the threads read
BatchStores ==
    { [KnowledgeBase(rows, SynonymPool) EXCEPT !.tests = ReportTestRows] :
        rows \in { {}, { r \in RangePool : r.range_id = 1 } } }

InitConcurrent ==
    /\ pc = "running"
    /\ db \in BatchStores
    /\ \E state \in RngStates, batches \in [Threads -> Batches] :
           call = [fn |-> "resolve_batches",
                   rng |-> state,
                   db0 |-> db,
                   threads |-> [t \in Threads |->
                                  [pc |-> "lookup",
                                   test_results |-> batches[t],
                                   results |-> <<>>,
                                   i |-> 0,
                                   total_score |-> 0,
                                   rng_start |-> None,
                                   ret |-> None]]]
    /\ ret = None
    /\ patient = NoPatient
    /\ llm_data = <<>>
    /\ results = <<>>
    /\ raised = ""

Thread(t) == call.threads[t]

\* rag_service.batch_lookup(db, parsed_results) in thread t
ThreadBatchLookup(t) ==
    /\ call.fn = "resolve_batches"
    /\ Thread(t).pc = "lookup"
    /\ \E enriched \in batch_lookup(db, Thread(t).test_results) :
           call' = [call EXCEPT !.threads[t].results = enriched,
                                !.threads[t].pc = "confidence"]
    /\ UNCHANGED <<pc, ret, db, patient, llm_data, results, raised>>

\* calculate_confidence in thread t, up to the loop: the two early returns
ThreadConfidenceStart(t) ==
    /\ call.fn = "resolve_batches"
    /\ Thread(t).pc = "confidence"
    /\ LET rs == Thread(t).results
       IN  IF rs = <<>>
           THEN \E out \in calculate_confidence_alone(rs, 0, call.rng) :
                    call' = [call EXCEPT !.threads[t].ret = Some(out),
                                         !.threads[t].rng_start = Some(call.rng),
                                         !.threads[t].pc = "done"]
           ELSE IF KbMatches(rs) = 0
           THEN \E out \in Unscored(Uniform(BaseScores, call.rng)) :
                    call' = [call EXCEPT !.threads[t].ret = Some(out),
                                         !.threads[t].rng_start = Some(call.rng),
                                         !.threads[t].pc = "done",
                                         !.rng = NextRng(@)]
           ELSE call' = [call EXCEPT !.threads[t].rng_start = Some(call.rng),
                                     !.threads[t].i = 1,
                                     !.threads[t].total_score = 0,
                                     !.threads[t].pc = "loop"]
    /\ UNCHANGED <<pc, ret, db, patient, llm_data, results, raised>>

\* one round of "for result in results" in thread t: one draw
ThreadConfidenceLoop(t) ==
    /\ call.fn = "resolve_batches"
    /\ Thread(t).pc = "loop"
    /\ Thread(t).i <= Len(Thread(t).results)
    /\ call' = [call EXCEPT
                  !.threads[t].total_score =
                      @ + TestScore(Thread(t).results[Thread(t).i], call.rng),
                  !.threads[t].i = @ + 1,
                  !.rng = NextRng(@)]
    /\ UNCHANGED <<pc, ret, db, patient, llm_data, results, raised>>

\* kb_base is drawn and the dictionary returned in thread t
ThreadConfidenceReturn(t) ==
    /\ call.fn = "resolve_batches"
    /\ Thread(t).pc = "loop"
    /\ Thread(t).i > Len(Thread(t).results)
    /\ \E out \in Scored(Thread(t).total_score, Uniform(FloorScores, call.rng),
                         KbMatches(Thread(t).results), Len(Thread(t).results)) :
           call' = [call EXCEPT !.threads[t].ret = Some(out),
                                !.threads[t].pc = "done",
                                !.rng = NextRng(@)]
    /\ UNCHANGED <<pc, ret, db, patient, llm_data, results, raised>>

NextConcurrent ==
    \E t \in Threads :
        \/ ThreadBatchLookup(t)
        \/ ThreadConfidenceStart(t)
        \/ ThreadConfidenceLoop(t)
        \/ ThreadConfidenceReturn(t)

SpecConcurrent == InitConcurrent /\ [][NextConcurrent]_vars

---------------------------------------------------------------------------
(* Properties of concurrent resolutions, checked under SpecConcurrent *)

\* C24: each of the concurrent resolutions returns what it returns when it
\* runs alone -- its lookup is one of the store it started with, its confidence
\* the one computed from the generator state it started with, with no draw of
\* another invocation in between -- and the store is unchanged.
C24_InterleavingIndependent ==
    call.fn = "resolve_batches" =>
        /\ db = call.db0
        /\ \A t \in Threads :
               Thread(t).pc = "done" =>
                   /\ Thread(t).results \in batch_lookup(call.db0, Thread(t).test_results)
                   /\ Get(Thread(t).ret) \in
                          calculate_confidence_alone(Thread(t).results,
                                                     KbMatches(Thread(t).results),
                                                     Get(Thread(t).rng_start))

=============================================================================
